---- MODULE Spec2Model ----
(***************************************************************************)
(* Model of POST /api/limpiezas (limpiar_dataset_multiple, src/app.py):    *)
(* the multi-step cleaning pipeline over a pandas DataFrame together with  *)
(* the files and Supabase calls the handler performs around it.            *)
(*                                                                         *)
(* Numbers are exact rationals [n, d] (d > 0, reduced).  On the small      *)
(* integers used here the float64 computations of pandas are exact for     *)
(* the quartiles (factors 1/4, 1/2, 3/4) and bounds; normalised values and *)
(* means are kept as exact fractions.  pandas is taken as the version the   *)
(* handler was written for, in which fillna(method=...) is accepted.       *)
(***************************************************************************)
EXTENDS Integers, Sequences, FiniteSets

VARIABLES
    storage,          \* bucket "datasets": object path -> CSV bytes (or NoFile)
    limpiezas_datos,  \* catalog table limpiezas_datos: sequence of inserted rows
    temp,             \* local directory temp/: file path -> CSV bytes (or NoFile)
    pc,               \* per request: position in the handler
    body,             \* per request: the JSON body (dataset_id, tipos_limpieza)
    response,         \* per request: bytes returned by storage download
    df,               \* per request: the DataFrame
    original_len,     \* per request: len(df) right after read_csv
    original_cols,    \* per request: len(df.columns) right after read_csv
    idx,              \* per request: position of the for loop in tipos_limpieza
    operaciones_realizadas, \* per request: the report entries appended so far
    total_afectados,  \* per request: the running total
    uploaded,         \* per request: bytes handed to storage upload
    respuesta         \* per request: the HTTP response (status and report)

vars == <<storage, limpiezas_datos, temp, pc, body, response, df, original_len,
          original_cols, idx, operaciones_realizadas, total_afectados, uploaded,
          respuesta>>

\* ------------------------------------------------------------------ bounds
\* Longest generated dataset (rows) and longest generated operation list.
MaxRows == 2
MaxOps == 2

Requests == {"r1", "r2"}

\* ---------------------------------------------------------------- rationals
RECURSIVE Gcd(_, _)
Gcd(x, y) == IF y = 0 THEN x ELSE Gcd(y, x % y)

Abs(x) == IF x < 0 THEN -x ELSE x

\* A cell: a number n/d, a text s, or the missing marker (NaN).
Num(n, d) ==
    LET g == Gcd(Abs(n), d)
    IN  [k |-> "num", n |-> n \div g, d |-> d \div g, s |-> ""]
Int64(n) == [k |-> "num", n |-> n, d |-> 1, s |-> ""]
Str(t) == [k |-> "str", n |-> 0, d |-> 1, s |-> t]
NaN == [k |-> "nan", n |-> 0, d |-> 1, s |-> ""]

IsNull(c) == c.k = "nan"

RAdd(x, y) == Num(x.n * y.d + y.n * x.d, x.d * y.d)
RSub(x, y) == Num(x.n * y.d - y.n * x.d, x.d * y.d)
RMul(x, y) == Num(x.n * y.n, x.d * y.d)
\* x / y for y # 0
RDiv(x, y) == IF y.n > 0 THEN Num(x.n * y.d, x.d * y.n)
              ELSE Num(-(x.n * y.d), x.d * (-y.n))
\* float comparison: any comparison with NaN is False
RLe(x, y) == x.k = "num" /\ y.k = "num" /\ x.n * y.d <= y.n * x.d
RGe(x, y) == RLe(y, x)

\* ---------------------------------------------------------------- sequences
Range(f) == {f[i] : i \in DOMAIN f}

RECURSIVE SeqSum(_)
SeqSum(s) == IF s = <<>> THEN Int64(0) ELSE RAdd(Head(s), SeqSum(Tail(s)))

RECURSIVE SumAfectados(_)
SumAfectados(ops) ==
    IF ops = <<>> THEN 0 ELSE Head(ops).afectados + SumAfectados(Tail(ops))

\* ascending insertion sort of a sequence of numbers
RECURSIVE Insert(_, _)
Insert(x, s) ==
    IF s = <<>> THEN <<x>>
    ELSE IF RLe(x, Head(s)) THEN <<x>> \o s
    ELSE <<Head(s)>> \o Insert(x, Tail(s))

RECURSIVE Sorted(_)
Sorted(s) == IF s = <<>> THEN <<>> ELSE Insert(Head(s), Sorted(Tail(s)))

\* float64 arithmetic on cells: NaN propagates
FSub(x, y) == IF x.k = "num" /\ y.k = "num" THEN RSub(x, y) ELSE NaN
FAdd(x, y) == IF x.k = "num" /\ y.k = "num" THEN RAdd(x, y) ELSE NaN
FMul(x, y) == IF x.k = "num" /\ y.k = "num" THEN RMul(x, y) ELSE NaN
FDiv(x, y) == IF x.k = "num" /\ y.k = "num" /\ y.n # 0 THEN RDiv(x, y) ELSE NaN

\* ---------------------------------------------------------------- DataFrame
\* A DataFrame: columns (names in order), dtypes (per column), rows (each a
\* function from column name to cell).  Row labels play no part in the handler.
NumericDtypes == {"float64", "int64"}

Column(d, col) == [i \in 1..Len(d.rows) |-> d.rows[i][col]]

NotNull(s) == SelectSeq(s, LAMBDA c : ~IsNull(c))

\* df.select_dtypes(include=['float64', 'int64']).columns
NumericColumns(d) == SelectSeq(d.columns, LAMBDA c : d.dtypes[c] \in NumericDtypes)

\* df.drop_duplicates(): the first occurrence of every row is kept
RECURSIVE Dedup(_, _)
Dedup(rows, seen) ==
    IF rows = <<>> THEN <<>>
    ELSE IF Head(rows) \in seen THEN Dedup(Tail(rows), seen)
    ELSE <<Head(rows)>> \o Dedup(Tail(rows), seen \cup {Head(rows)})

drop_duplicates(d) == [d EXCEPT !.rows = Dedup(d.rows, {})]

\* int(df.duplicated().sum())
duplicated_sum(d) == Len(d.rows) - Len(Dedup(d.rows, {}))

\* int(df.isnull().sum().sum())
isnull_sum(d) ==
    Cardinality({<<i, c>> \in (1..Len(d.rows)) \X Range(d.columns) : IsNull(d.rows[i][c])})

RowHasNull(row) == \E c \in DOMAIN row : IsNull(row[c])

\* variant of dropna: dropna(how="all"), only rows without any value are removed
dropna_HowAll(d) ==
    [d EXCEPT !.rows = SelectSeq(d.rows, LAMBDA r : \E c \in DOMAIN r : ~IsNull(r[c]))]

\* df.dropna(): every row with a missing cell in any column is removed
dropna(d) == [d EXCEPT !.rows = SelectSeq(d.rows, LAMBDA r : ~RowHasNull(r))]

\* nearest non-missing value at or before row i of column col (NaN if none)
RECURSIVE LastValid(_, _, _)
LastValid(rows, i, col) ==
    IF i = 0 THEN NaN
    ELSE IF ~IsNull(rows[i][col]) THEN rows[i][col]
    ELSE LastValid(rows, i - 1, col)

\* nearest non-missing value at or after row i of column col (NaN if none)
RECURSIVE NextValid(_, _, _)
NextValid(rows, i, col) ==
    IF i > Len(rows) THEN NaN
    ELSE IF ~IsNull(rows[i][col]) THEN rows[i][col]
    ELSE NextValid(rows, i + 1, col)

\* df.fillna(method=metodo) for metodo in ffill, bfill
fillna_method(d, metodo) ==
    [d EXCEPT !.rows =
        [i \in 1..Len(d.rows) |->
            [c \in DOMAIN d.rows[i] |->
                IF metodo = "ffill" THEN LastValid(d.rows, i, c)
                ELSE NextValid(d.rows, i, c)]]]

\* Series.mean(): mean of the non-missing values, NaN if there are none
Mean(s) ==
    LET v == NotNull(s)
    IN  IF v = <<>> THEN NaN ELSE RDiv(SeqSum(v), Int64(Len(v)))

\* df.fillna(df.mean(numeric_only=True)): only numeric columns have a mean;
\* a NaN mean fills nothing
fillna_mean(d) ==
    [d EXCEPT !.rows =
        [i \in 1..Len(d.rows) |->
            [c \in DOMAIN d.rows[i] |->
                IF IsNull(d.rows[i][c]) /\ d.dtypes[c] \in NumericDtypes
                THEN Mean(Column(d, c))
                ELSE d.rows[i][c]]]]

\* variant of Quantile: interpolation="lower"
Quantile_Lower(s, num4) ==
    LET v == Sorted(NotNull(s))
        n == Len(v)
    IN  IF n = 0 THEN NaN ELSE v[(((n - 1) * num4) \div 4) + 1]

\* Series.quantile(num4 / 4), linear interpolation over the sorted non-missing
\* values; NaN if there are none
Quantile(s, num4) ==
    LET v == Sorted(NotNull(s))
        n == Len(v)
        h == (n - 1) * num4
        i == h \div 4
        r == h % 4
    IN  IF n = 0 THEN NaN
        ELSE IF r = 0 THEN v[i + 1]
        ELSE RAdd(v[i + 1], RMul(RSub(v[i + 2], v[i + 1]), Num(r, 4)))

\* Series.min(), Series.max() (NaN if there are no values)
Min_val(s) == LET v == Sorted(NotNull(s)) IN IF v = <<>> THEN NaN ELSE v[1]
Max_val(s) == LET v == Sorted(NotNull(s)) IN IF v = <<>> THEN NaN ELSE v[Len(v)]

\* one column of the outliers loop: rows outside [Q1 - umbral*IQR, Q3 + umbral*IQR]
\* are dropped; a comparison with NaN is False
OutlierFilter(d, col, umbral) ==
    LET s == Column(d, col)
        Q1 == Quantile(s, 1)
        Q3 == Quantile(s, 3)
        IQR == FSub(Q3, Q1)
        lower == FSub(Q1, FMul(umbral, IQR))
        upper == FAdd(Q3, FMul(umbral, IQR))
    IN  [d EXCEPT !.rows =
            SelectSeq(d.rows, LAMBDA r : RGe(r[col], lower) /\ RLe(r[col], upper))]

\* for col in columnas: df[col] raises KeyError when col is no column of df
RECURSIVE OutliersLoop(_, _, _)
OutliersLoop(d, columnas, umbral) ==
    IF columnas = <<>> THEN [raised |-> FALSE, df |-> d]
    ELSE IF Head(columnas) \notin Range(d.columns) THEN [raised |-> TRUE, df |-> d]
    ELSE IF d.dtypes[Head(columnas)] \in NumericDtypes
         THEN OutliersLoop(OutlierFilter(d, Head(columnas), umbral), Tail(columnas), umbral)
    ELSE OutliersLoop(d, Tail(columnas), umbral)

\* one column of the normalizacion loop: min-max rescaling unless max = min
\* (NaN != NaN is True in Python)
NormalizeColumn(d, col) ==
    LET s == Column(d, col)
        min_val == Min_val(s)
        max_val == Max_val(s)
    IN  IF IsNull(max_val) \/ IsNull(min_val) \/ max_val # min_val
        THEN [d EXCEPT
                !.dtypes[col] = "float64",
                !.rows = [i \in 1..Len(d.rows) |->
                            [d.rows[i] EXCEPT ![col] =
                                FDiv(FSub(@, min_val), FSub(max_val, min_val))]]]
        ELSE d

RECURSIVE NormalizacionLoop(_, _)
NormalizacionLoop(d, columnas) ==
    IF columnas = <<>> THEN [raised |-> FALSE, df |-> d]
    ELSE IF Head(columnas) \notin Range(d.columns) THEN [raised |-> TRUE, df |-> d]
    ELSE IF d.dtypes[Head(columnas)] \in NumericDtypes
         THEN NormalizacionLoop(NormalizeColumn(d, Head(columnas)), Tail(columnas))
    ELSE NormalizacionLoop(d, Tail(columnas))

\* --------------------------------------------------------------- CSV files
\* A file: absent, or bytes = a header line and data lines, each a tuple of fields
\* in column order.  A missing cell is written as the empty field.
NoFile == [exists |-> FALSE, header |-> <<>>, lines |-> <<>>]
EmptyFile == [exists |-> TRUE, header |-> <<>>, lines |-> <<>>]

Field(cell) == IF IsNull(cell) THEN Str("") ELSE cell
ParseField(f) == IF f = Str("") THEN NaN ELSE f

\* df.to_csv(path, index=False)
to_csv(d) ==
    [exists |-> TRUE,
     header |-> d.columns,
     lines |-> [i \in 1..Len(d.rows) |->
                  [j \in 1..Len(d.columns) |-> Field(d.rows[i][d.columns[j]])]]]

\* dtype inference of pd.read_csv for column j: no data -> object; any text ->
\* object; whole numbers without a missing cell -> int64; otherwise float64
InferDtype(file, j) ==
    LET cells == [i \in 1..Len(file.lines) |-> ParseField(file.lines[i][j])]
    IN  IF cells = <<>> THEN "object"
        ELSE IF \E i \in DOMAIN cells : cells[i].k = "str" THEN "object"
        ELSE IF \A i \in DOMAIN cells : cells[i].k = "num" /\ cells[i].d = 1 THEN "int64"
        ELSE "float64"

ColIndex(header, c) == CHOOSE j \in 1..Len(header) : header[j] = c

\* pd.read_csv(path) of a file with a header line
read_csv(file) ==
    [columns |-> file.header,
     dtypes |-> [c \in Range(file.header) |-> InferDtype(file, ColIndex(file.header, c))],
     rows |-> [i \in 1..Len(file.lines) |->
                 [c \in Range(file.header) |->
                     ParseField(file.lines[i][ColIndex(file.header, c)])]]]

NoDf == [columns |-> <<>>, dtypes |-> <<>>, rows |-> <<>>]

\* ------------------------------------------------------- request entries
\* An entry of tipos_limpieza: a bare string, a dict {tipo, parametros}, or any
\* other JSON value.  A parameter the dict does not hold is marked absent.
NoMetodo == ""
NoColumnas == [given |-> FALSE, names |-> <<>>]
NoUmbral == NaN
NoParametros == [metodo |-> NoMetodo, columnas |-> NoColumnas, umbral |-> NoUmbral]

Columnas(names) == [given |-> TRUE, names |-> names]

EntryStr(tipo) == [form |-> "str", tipo |-> tipo, parametros |-> NoParametros]
EntryDict(tipo, parametros) == [form |-> "dict", tipo |-> tipo, parametros |-> parametros]
EntryOther == [form |-> "other", tipo |-> "", parametros |-> NoParametros]

\* parametros.get("metodo", "drop")
MetodoOf(parametros) ==
    IF parametros.metodo = NoMetodo THEN "drop" ELSE parametros.metodo

\* parametros.get("columnas", list(df.select_dtypes(...).columns))
ColumnasOf(parametros, d) ==
    IF parametros.columnas.given THEN parametros.columnas.names ELSE NumericColumns(d)

\* parametros.get("umbral", 1.5)
UmbralOf(parametros) ==
    IF parametros.umbral = NoUmbral THEN Num(3, 2) ELSE parametros.umbral

\* variant of Afectados: the operands exchanged
Afectados_Swapped(antes, d) == Len(d.rows) - antes

\* afectados = antes - len(df)
Afectados(antes, d) == antes - Len(d.rows)

\* The body of the for loop for one str/dict entry: the new df, afectados, and
\* whether an exception left the loop.
Limpieza(d, tipo, parametros) ==
    LET antes == Len(d.rows)
        same == [raised |-> FALSE, df |-> d, afectados |-> 0]
    IN  IF tipo = "duplicados" THEN
            LET n == drop_duplicates(d)
            IN  [raised |-> FALSE, df |-> n, afectados |-> Afectados(antes, n)]
        ELSE IF tipo = "nulos" THEN
            LET metodo == MetodoOf(parametros)
            IN  IF metodo = "drop" THEN
                    LET n == dropna(d)
                    IN  [raised |-> FALSE, df |-> n, afectados |-> Afectados(antes, n)]
                ELSE IF metodo \in {"ffill", "bfill"} THEN
                    [raised |-> FALSE, df |-> fillna_method(d, metodo), afectados |-> 0]
                ELSE IF metodo = "mean" THEN
                    [raised |-> FALSE, df |-> fillna_mean(d), afectados |-> 0]
                ELSE same
        ELSE IF tipo = "outliers" THEN
            LET o == OutliersLoop(d, ColumnasOf(parametros, d), UmbralOf(parametros))
            IN  [raised |-> o.raised, df |-> o.df, afectados |-> Afectados(antes, o.df)]
        ELSE IF tipo = "normalizacion" THEN
            LET o == NormalizacionLoop(d, ColumnasOf(parametros, d))
            IN  [raised |-> o.raised, df |-> o.df, afectados |-> 0]
        ELSE same

\* variant of Reportar: the entry is put in front (insert(0, ...))
Reportar_Front(operaciones, entrada) == <<entrada>> \o operaciones

\* operaciones_realizadas.append({...})
Reportar(operaciones, entrada) == Append(operaciones, entrada)

\* variant of AddAfectados: "=" written for "+="
AddAfectados_Assign(total, afectados) == afectados

\* total_afectados += afectados
AddAfectados(total, afectados) == total + afectados

\* ------------------------------------------------------------- the handler
OrigPath == "datasets/d.csv"           \* dataset["ruta_almacenamiento"]
TempPath == "temp/d.csv"               \* temp_path
CleanPath == "temp/clean_multi_d.csv"  \* clean_path
RutaStorageClean == "clean/clean_multi_d.csv"  \* ruta_storage_clean

\* the id of the only row of table datasets
DatasetId == 1

PreviewRows == 10

NoResponse ==
    [status |-> 0, limpieza_id |-> 0, total_afectados |-> 0, operaciones |-> <<>>,
     cleaned_preview |-> <<>>, total_filas |-> 0, total_columnas |-> 0,
     nulls |-> 0, duplicados |-> 0, outliers |-> 0]

ErrorResponse(status) == [NoResponse EXCEPT !.status = status]

\* df.head(10).to_dict(orient="records")
Head_df(d, n) == SubSeq(d.rows, 1, IF Len(d.rows) < n THEN Len(d.rows) ELSE n)

\* the 200 response, lines 278-295
OkResponse(d, limpieza_id, total, operaciones) ==
    [status |-> 200, limpieza_id |-> limpieza_id, total_afectados |-> total,
     operaciones |-> operaciones, cleaned_preview |-> Head_df(d, PreviewRows),
     total_filas |-> Len(d.rows), total_columnas |-> Len(d.columns),
     nulls |-> isnull_sum(d), duplicados |-> duplicated_sum(d), outliers |-> 0]

\* return ... 400 / 404 / 500: the handler ends with an error response
Fail(r, status) ==
    /\ pc' = [pc EXCEPT ![r] = "done"]
    /\ respuesta' = [respuesta EXCEPT ![r] = ErrorResponse(status)]

\* variant of Valid: only dataset_id is examined
Valid_IdOnly(b) == b.dataset_id # 0

\* line 162: not (not dataset_id or not tipos_limpieza); 0 is the falsy id
Valid(b) == b.dataset_id # 0 /\ b.tipos_limpieza # <<>>

\* lines 158-163: a falsy dataset_id or tipos_limpieza ends the request with 400
Rechazar(r) ==
    /\ pc[r] = "start"
    /\ ~Valid(body[r])
    /\ Fail(r, 400)
    /\ UNCHANGED <<storage, limpiezas_datos, temp, body, response, df, original_len,
                   original_cols, idx, operaciones_realizadas, total_afectados, uploaded>>

\* lines 166-168: no row of datasets has this id
NoEncontrado(r) ==
    /\ pc[r] = "start"
    /\ Valid(body[r])
    /\ body[r].dataset_id # DatasetId
    /\ Fail(r, 404)
    /\ UNCHANGED <<storage, limpiezas_datos, temp, body, response, df, original_len,
                   original_cols, idx, operaciones_realizadas, total_afectados, uploaded>>

\* lines 166-174: the dataset row is found and its file downloaded
Descargar(r) ==
    /\ pc[r] = "start"
    /\ Valid(body[r])
    /\ body[r].dataset_id = DatasetId
    /\ response' = [response EXCEPT ![r] = storage[OrigPath]]
    /\ pc' = [pc EXCEPT ![r] = "open_temp"]
    /\ UNCHANGED <<storage, limpiezas_datos, temp, body, df, original_len,
                   original_cols, idx, operaciones_realizadas, total_afectados, uploaded,
                   respuesta>>

\* line 177: open(temp_path, "wb") creates or truncates the file
AbrirTemp(r) ==
    /\ pc[r] = "open_temp"
    /\ temp' = [temp EXCEPT ![TempPath] = EmptyFile]
    /\ pc' = [pc EXCEPT ![r] = "write_temp"]
    /\ UNCHANGED <<storage, limpiezas_datos, body, response, df, original_len,
                   original_cols, idx, operaciones_realizadas, total_afectados, uploaded,
                   respuesta>>

\* line 178: f.write(response), the file is closed
EscribirTemp(r) ==
    /\ pc[r] = "write_temp"
    /\ temp' = [temp EXCEPT ![TempPath] = response[r]]
    /\ pc' = [pc EXCEPT ![r] = "read_csv"]
    /\ UNCHANGED <<storage, limpiezas_datos, body, response, df, original_len,
                   original_cols, idx, operaciones_realizadas, total_afectados, uploaded,
                   respuesta>>

\* lines 180-190: read_csv of temp_path and the initialisation of the loop
LeerCsv(r) ==
    /\ pc[r] = "read_csv"
    /\ temp[TempPath] # EmptyFile
    /\ df' = [df EXCEPT ![r] = read_csv(temp[TempPath])]
    /\ original_len' = [original_len EXCEPT ![r] = Len(df'[r].rows)]
    /\ original_cols' = [original_cols EXCEPT ![r] = Len(df'[r].columns)]
    /\ operaciones_realizadas' = [operaciones_realizadas EXCEPT ![r] = <<>>]
    /\ total_afectados' = [total_afectados EXCEPT ![r] = 0]
    /\ idx' = [idx EXCEPT ![r] = 1]
    /\ pc' = [pc EXCEPT ![r] = "loop"]
    /\ UNCHANGED <<storage, limpiezas_datos, temp, body, response, uploaded, respuesta>>

\* lines 180-183, 297-299: read_csv of a file without bytes raises EmptyDataError
LeerCsvFalla(r) ==
    /\ pc[r] = "read_csv"
    /\ temp[TempPath] = EmptyFile
    /\ Fail(r, 500)
    /\ UNCHANGED <<storage, limpiezas_datos, temp, body, response, df, original_len,
                   original_cols, idx, operaciones_realizadas, total_afectados, uploaded>>

Entry(r) == body[r].tipos_limpieza[idx[r]]

\* lines 193-201: an entry that is neither a string nor a dict is passed over
SaltarEntrada(r) ==
    /\ pc[r] = "loop"
    /\ idx[r] <= Len(body[r].tipos_limpieza)
    /\ Entry(r).form = "other"
    /\ idx' = [idx EXCEPT ![r] = @ + 1]
    /\ UNCHANGED <<storage, limpiezas_datos, temp, pc, body, response, df, original_len,
                   original_cols, operaciones_realizadas, total_afectados, uploaded,
                   respuesta>>

\* lines 193-247: one iteration of the loop that runs to its end
AplicarLimpieza(r) ==
    /\ pc[r] = "loop"
    /\ idx[r] <= Len(body[r].tipos_limpieza)
    /\ Entry(r).form # "other"
    /\ LET res == Limpieza(df[r], Entry(r).tipo, Entry(r).parametros)
       IN  /\ ~res.raised
           /\ df' = [df EXCEPT ![r] = res.df]
           /\ operaciones_realizadas' =
                [operaciones_realizadas EXCEPT ![r] =
                    Reportar(@, [tipo |-> Entry(r).tipo,
                                 parametros |-> Entry(r).parametros,
                                 afectados |-> res.afectados])]
           /\ total_afectados' =
                [total_afectados EXCEPT ![r] = AddAfectados(@, res.afectados)]
    /\ idx' = [idx EXCEPT ![r] = @ + 1]
    /\ UNCHANGED <<storage, limpiezas_datos, temp, pc, body, response, original_len,
                   original_cols, uploaded, respuesta>>

\* lines 225-226, 236-237, 297-299: df[col] raises KeyError, the handler answers 500
LimpiezaFalla(r) ==
    /\ pc[r] = "loop"
    /\ idx[r] <= Len(body[r].tipos_limpieza)
    /\ Entry(r).form # "other"
    /\ Limpieza(df[r], Entry(r).tipo, Entry(r).parametros).raised
    /\ Fail(r, 500)
    /\ UNCHANGED <<storage, limpiezas_datos, temp, body, response, df, original_len,
                   original_cols, idx, operaciones_realizadas, total_afectados, uploaded>>

\* lines 249-253: the loop is over, df.to_csv(clean_path, index=False)
GuardarCsv(r) ==
    /\ pc[r] = "loop"
    /\ idx[r] > Len(body[r].tipos_limpieza)
    /\ temp' = [temp EXCEPT ![CleanPath] = to_csv(df[r])]
    /\ pc' = [pc EXCEPT ![r] = "upload"]
    /\ UNCHANGED <<storage, limpiezas_datos, body, response, df, original_len,
                   original_cols, idx, operaciones_realizadas, total_afectados, uploaded,
                   respuesta>>

\* lines 256-265: the stored object is removed (an error of remove is passed
\* over) and the bytes of clean_path, as they are now, are uploaded
Subir(r) ==
    /\ pc[r] = "upload"
    /\ uploaded' = [uploaded EXCEPT ![r] = temp[CleanPath]]
    /\ storage' = [storage EXCEPT ![RutaStorageClean] = temp[CleanPath]]
    /\ pc' = [pc EXCEPT ![r] = "insert"]
    /\ UNCHANGED <<limpiezas_datos, temp, body, response, df, original_len,
                   original_cols, idx, operaciones_realizadas, total_afectados,
                   respuesta>>

\* lines 256-265, 297-299: upload raises, after remove did or did not delete
\* the stored object
SubirFalla(r) ==
    /\ pc[r] = "upload"
    /\ \E removed \in BOOLEAN :
          storage' = IF removed THEN [storage EXCEPT ![RutaStorageClean] = NoFile]
                     ELSE storage
    /\ Fail(r, 500)
    /\ UNCHANGED <<limpiezas_datos, temp, body, response, df, original_len,
                   original_cols, idx, operaciones_realizadas, total_afectados, uploaded>>

\* the row inserted into limpiezas_datos, lines 268-275
LimpiezaRow(r) ==
    [dataset_id |-> body[r].dataset_id,
     tipo_limpieza |-> "multiple",
     parametros_usados |-> operaciones_realizadas[r],
     num_registros_afectados |-> total_afectados[r],
     ruta_dataset_limpio |-> RutaStorageClean,
     estado |-> "Completada"]

\* lines 267-295: the row is inserted, the statistics computed, 200 returned
Registrar(r) ==
    /\ pc[r] = "insert"
    /\ limpiezas_datos' = Append(limpiezas_datos, LimpiezaRow(r))
    /\ respuesta' = [respuesta EXCEPT ![r] =
            OkResponse(df[r], Len(limpiezas_datos'), total_afectados[r],
                       operaciones_realizadas[r])]
    /\ pc' = [pc EXCEPT ![r] = "done"]
    /\ UNCHANGED <<storage, temp, body, response, df, original_len, original_cols, idx,
                   operaciones_realizadas, total_afectados, uploaded>>

\* lines 268-275, 297-299: the insert raises
RegistrarFalla(r) ==
    /\ pc[r] = "insert"
    /\ Fail(r, 500)
    /\ UNCHANGED <<storage, limpiezas_datos, temp, body, response, df, original_len,
                   original_cols, idx, operaciones_realizadas, total_afectados, uploaded>>

Next ==
    \E r \in Requests :
        \/ Rechazar(r)
        \/ NoEncontrado(r)
        \/ Descargar(r)
        \/ AbrirTemp(r)
        \/ EscribirTemp(r)
        \/ LeerCsv(r)
        \/ LeerCsvFalla(r)
        \/ SaltarEntrada(r)
        \/ AplicarLimpieza(r)
        \/ LimpiezaFalla(r)
        \/ GuardarCsv(r)
        \/ Subir(r)
        \/ SubirFalla(r)
        \/ Registrar(r)
        \/ RegistrarFalla(r)

\* ------------------------------------------------------------------ inputs
\* Data lines over the header (a, s): a is numeric, s is text, "" is a missing cell.
RowUniverse ==
    { <<Int64(1), Str("x")>>, <<Int64(2), Str("x")>>,
      <<Str(""), Str("x")>>, <<Int64(1), Str("")>> }

GeneratedDatasets ==
    { [exists |-> TRUE, header |-> <<"a", "s">>, lines |-> l] :
        l \in UNION { [1..n -> RowUniverse] : n \in 0..MaxRows } }

\* [{a:1,b:2},{a:1,b:2},{a:999,b:3}]
ExampleEndToEnd ==
    [exists |-> TRUE, header |-> <<"a", "b">>,
     lines |-> << <<Int64(1), Int64(2)>>, <<Int64(1), Int64(2)>>,
                  <<Int64(999), Int64(3)>> >>]

\* one column with values [1, 2, 3, 4, 100]
ExampleOutlierBounds ==
    [exists |-> TRUE, header |-> <<"a">>,
     lines |-> << <<Int64(1)>>, <<Int64(2)>>, <<Int64(3)>>, <<Int64(4)>>,
                  <<Int64(100)>> >>]

\* two numeric columns, one with a missing cell
ExampleTwoNumeric ==
    [exists |-> TRUE, header |-> <<"a", "b">>,
     lines |-> << <<Int64(1), Int64(1)>>, <<Int64(1), Int64(9)>>,
                  <<Int64(5), Int64(1)>>, <<Str(""), Int64(1)>> >>]

Datasets ==
    GeneratedDatasets
        \cup {ExampleEndToEnd, ExampleOutlierBounds, ExampleTwoNumeric, EmptyFile}

Params(metodo, columnas, umbral) ==
    [metodo |-> metodo, columnas |-> columnas, umbral |-> umbral]

OpUniverse ==
    { EntryStr("duplicados"),
      EntryDict("nulos", NoParametros),
      EntryDict("nulos", Params("ffill", NoColumnas, NoUmbral)),
      EntryDict("nulos", Params("bfill", NoColumnas, NoUmbral)),
      EntryDict("nulos", Params("mean", NoColumnas, NoUmbral)),
      EntryDict("outliers", NoParametros),
      EntryDict("outliers", Params(NoMetodo, Columnas(<<"a">>), Int64(0))),
      EntryDict("outliers", Params(NoMetodo, Columnas(<<"s", "a">>), Int64(0))),
      EntryDict("normalizacion", NoParametros),
      EntryDict("normalizacion", Params(NoMetodo, Columnas(<<"s", "a">>), NoUmbral)),
      EntryDict("desconocido", NoParametros),
      EntryOther }

OpLists == UNION { [1..n -> OpUniverse] : n \in 0..MaxOps }

Body(dataset_id, tipos_limpieza) ==
    [dataset_id |-> dataset_id, tipos_limpieza |-> tipos_limpieza]

NoBody == Body(0, <<>>)

\* dataset_id 0 stands for a missing or falsy id, 2 for an id without a row
Bodies ==
    { Body(DatasetId, l) : l \in OpLists }
        \cup { Body(0, <<EntryStr("duplicados")>>), Body(2, <<EntryStr("duplicados")>>) }

InitCommon ==
    /\ limpiezas_datos = <<>>
    /\ temp = [p \in {TempPath, CleanPath} |-> NoFile]
    /\ response = [r \in Requests |-> NoFile]
    /\ df = [r \in Requests |-> NoDf]
    /\ original_len = [r \in Requests |-> 0]
    /\ original_cols = [r \in Requests |-> 0]
    /\ idx = [r \in Requests |-> 0]
    /\ operaciones_realizadas = [r \in Requests |-> <<>>]
    /\ total_afectados = [r \in Requests |-> 0]
    /\ uploaded = [r \in Requests |-> NoFile]
    /\ respuesta = [r \in Requests |-> NoResponse]

\* One request (r1) on any dataset with any operation list.
Init ==
    /\ \E ds \in Datasets :
          storage = [p \in {OrigPath, RutaStorageClean} |->
                        IF p = OrigPath THEN ds ELSE NoFile]
    /\ \E b \in Bodies : body = [r \in Requests |-> IF r = "r1" THEN b ELSE NoBody]
    /\ pc = [r \in Requests |-> IF r = "r1" THEN "start" ELSE "off"]
    /\ InitCommon

Spec == Init /\ [][Next]_vars

\* Two requests served by two threads of the server, on the same dataset.
ConcDataset ==
    [exists |-> TRUE, header |-> <<"a", "s">>,
     lines |-> << <<Int64(1), Str("x")>>, <<Int64(1), Str("x")>>,
                  <<Str(""), Str("x")>> >>]

ConcBodies ==
    { Body(DatasetId, <<EntryStr("duplicados")>>),
      Body(DatasetId, <<EntryDict("nulos", NoParametros)>>),
      Body(DatasetId, <<EntryOther,
                        EntryDict("outliers",
                                  Params(NoMetodo, Columnas(<<"z">>), NoUmbral))>>),
      Body(0, <<EntryStr("duplicados")>>),
      Body(2, <<EntryStr("duplicados")>>) }

InitConc ==
    /\ \E ds \in {ConcDataset, EmptyFile} :
          storage = [p \in {OrigPath, RutaStorageClean} |->
                        IF p = OrigPath THEN ds ELSE NoFile]
    /\ body \in [Requests -> ConcBodies]
    /\ pc = [r \in Requests |-> "start"]
    /\ InitCommon

SpecConc == InitConc /\ [][Next]_vars

\* ==================================================================== claims
Done(r) == pc[r] = "done"
Ok(r) == respuesta[r].status = 200
Ops(r) == operaciones_realizadas[r]
Original == storage[OrigPath]

IsFill(entrada) ==
    entrada.tipo = "nulos" /\ MetodoOf(entrada.parametros) \in {"ffill", "bfill", "mean"}
IsDrop(entrada) == entrada.tipo = "nulos" /\ MetodoOf(entrada.parametros) = "drop"
RemovesRows(entrada) == entrada.tipo \in {"duplicados", "outliers"} \/ IsDrop(entrada)

\* the loaded table came through the pipeline untouched and was reported so
Untouched(r) ==
    /\ respuesta[r].total_afectados = 0
    /\ respuesta[r].operaciones = <<>>
    /\ df[r] = read_csv(Original)
    /\ uploaded[r] = to_csv(read_csv(Original))
    /\ respuesta[r].total_filas = Len(Original.lines)

\* C1 as stated: a request with an empty operation list completes with 200 and
\* returns the loaded table unchanged, total_afectados = 0 and an empty report.
C1_EmptyListCompletes ==
    \A r \in Requests :
        (Done(r) /\ body[r].dataset_id = DatasetId /\ body[r].tipos_limpieza = <<>>)
            => (Ok(r) /\ Untouched(r))

\* C1 amended: an empty operation list is rejected with 400 before the dataset is
\* loaded and nothing is written; a non-empty list whose entries are all passed
\* over (neither string nor dict), when the request completes, returns the loaded
\* table unchanged with total_afectados = 0 and an empty report.
C1_EmptyListRejected ==
    \A r \in Requests :
        (Done(r) /\ body[r].dataset_id = DatasetId) =>
            /\ body[r].tipos_limpieza = <<>> =>
                  /\ respuesta[r].status = 400
                  /\ response[r] = NoFile /\ df[r] = NoDf /\ uploaded[r] = NoFile
                  /\ storage[RutaStorageClean] = NoFile
                  /\ limpiezas_datos = <<>>
                  /\ temp[TempPath] = NoFile /\ temp[CleanPath] = NoFile
            /\ ( /\ body[r].tipos_limpieza # <<>>
                 /\ \A i \in DOMAIN body[r].tipos_limpieza :
                        body[r].tipos_limpieza[i].form = "other"
                 /\ Ok(r) ) => Untouched(r)

C1_Witness ==
    \E r \in Requests :
        /\ Done(r) /\ body[r].dataset_id = DatasetId
        /\ body[r].tipos_limpieza = <<>> /\ respuesta[r].status = 400
        /\ Original.lines # <<>>

\* C2: the entries are processed one by one in list order; each str/dict entry is
\* applied to the table its predecessor left, appends one report entry with its own
\* tipo, and that entry's afectados is the number of rows this entry removed.
C2_SequentialAccounting ==
    [][\A r \in Requests :
        /\ (pc[r] = "loop" /\ idx'[r] = idx[r]) => df'[r] = df[r] /\ Ops(r)' = Ops(r)
        /\ (pc[r] = "loop" /\ idx'[r] # idx[r]) =>
            /\ idx'[r] = idx[r] + 1
            /\ IF Entry(r).form = "other"
               THEN df'[r] = df[r] /\ Ops(r)' = Ops(r)
               ELSE /\ df'[r] = Limpieza(df[r], Entry(r).tipo, Entry(r).parametros).df
                    /\ Len(Ops(r)') = Len(Ops(r)) + 1
                    /\ SubSeq(Ops(r)', 1, Len(Ops(r))) = Ops(r)
                    /\ Ops(r)'[Len(Ops(r)')].tipo = Entry(r).tipo
                    /\ Ops(r)'[Len(Ops(r)')].afectados
                          = Len(df[r].rows) - Len(df'[r].rows)]_vars

C2_Witness ==
    \E r \in Requests :
        /\ Len(Ops(r)) = 2
        /\ Ops(r)[1].tipo = "outliers" /\ Ops(r)[1].afectados = 1
        /\ Ops(r)[2].tipo = "duplicados" /\ Ops(r)[2].afectados = 1
        /\ original_len[r] = 3 /\ Len(df[r].rows) = 1

\* C3: total_afectados is the sum of the afectados of the report entries, at every
\* point of the loop, in the inserted row and in the 200 response.
C3_TotalIsSum ==
    /\ \A r \in Requests :
        /\ total_afectados[r] = SumAfectados(Ops(r))
        /\ Ok(r) => respuesta[r].total_afectados = SumAfectados(respuesta[r].operaciones)
    /\ \A i \in DOMAIN limpiezas_datos :
          limpiezas_datos[i].num_registros_afectados
              = SumAfectados(limpiezas_datos[i].parametros_usados)

C3_Witness ==
    \E r \in Requests :
        /\ Done(r) /\ Ok(r)
        /\ \E i, j \in DOMAIN respuesta[r].operaciones :
              /\ respuesta[r].operaciones[i].afectados = 0
              /\ respuesta[r].operaciones[j].afectados > 0

\* C10: after every prefix of the list the row count is the original row count
\* minus the running total, no entry reports a negative count (the row count never
\* grows), entries that remove no rows report 0, and the columns are those loaded;
\* the 200 response reports total_filas = original - total_afectados and
\* total_columnas = the original column count.
C10_RowAccounting ==
    \A r \in Requests :
        /\ pc[r] \in {"loop", "upload", "insert"} \/ Ok(r) =>
            /\ Len(df[r].rows) = original_len[r] - total_afectados[r]
            /\ original_len[r] = Len(Original.lines)
            /\ df[r].columns = Original.header
            /\ Len(df[r].columns) = original_cols[r]
            /\ \A i \in DOMAIN df[r].rows : DOMAIN df[r].rows[i] = Range(Original.header)
            /\ \A i \in DOMAIN Ops(r) :
                  /\ Ops(r)[i].afectados >= 0
                  /\ ~RemovesRows(Ops(r)[i]) => Ops(r)[i].afectados = 0
        /\ Ok(r) =>
            /\ respuesta[r].total_filas = Len(Original.lines) - respuesta[r].total_afectados
            /\ respuesta[r].total_columnas = Len(Original.header)

C10_Witness ==
    \E r \in Requests :
        /\ Done(r) /\ Ok(r) /\ respuesta[r].total_afectados > 0
        /\ respuesta[r].total_filas > 0
        /\ \E i \in DOMAIN Ops(r) : IsFill(Ops(r)[i])

\* C4 as stated: an outliers or normalizacion entry never raises on account of
\* its columnas; the request is never ended with an error while such an entry is
\* the one being processed.
C4_ColumnsSkipped ==
    \A r \in Requests :
        ( /\ Done(r)
          /\ idx[r] \in DOMAIN body[r].tipos_limpieza
          /\ Entry(r).tipo \in {"outliers", "normalizacion"} )
            => respuesta[r].status # 500

\* C5 as stated: once every request has ended, the stored cleaned file and the
\* rows of limpiezas_datos go together: one row per request answered 200, and a
\* stored cleaned file exactly when some request was answered 200.
C5_Atomic ==
    (\A r \in Requests : pc[r] \in {"off", "done"}) =>
        LET n == Cardinality({r \in Requests : Ok(r)})
        IN  /\ Len(limpiezas_datos) = n
            /\ (storage[RutaStorageClean] # NoFile) <=> (n > 0)

\* C6 as stated: with two requests in flight, the table a request loads is the
\* dataset's original content, and the bytes it uploads are the serialization of
\* its own table.
C6_NoSharedState ==
    \A r \in Requests :
        /\ (pc[r] = "loop" /\ idx[r] = 1) => df[r] = read_csv(Original)
        /\ uploaded[r] # NoFile => uploaded[r] = to_csv(df[r])

\* the request of the end-to-end example
EndToEndBody ==
    Body(DatasetId,
         << EntryStr("duplicados"),
            EntryDict("outliers", Params(NoMetodo, Columnas(<<"a">>), Int64(0))) >>)

IsEndToEnd(r) == body[r] = EndToEndBody /\ Original = ExampleEndToEnd

\* C7 as stated: duplicados leaves 2 rows (afectados 1), outliers removes only the
\* row with a = 999 (afectados 1), total_afectados = 2 and 1 row remains.
C7_EndToEndAsStated ==
    \A r \in Requests :
        (IsEndToEnd(r) /\ Done(r) /\ Ok(r)) =>
            /\ Ops(r)[1].afectados = 1
            /\ Ops(r)[2].afectados = 1
            /\ respuesta[r].total_afectados = 2
            /\ respuesta[r].total_filas = 1

\* C7 amended: duplicados leaves the 2 rows a = 1 and a = 999 (afectados 1); on
\* these Q1 = 250.5 and Q3 = 749.5, so with umbral 0 outliers removes both rows
\* (afectados 2); total_afectados = 3 and no row remains.
C7_EndToEnd ==
    \A r \in Requests :
        IsEndToEnd(r) =>
            /\ (pc[r] = "loop" /\ idx[r] = 2) =>
                  /\ Ops(r)[1].afectados = 1
                  /\ Column(df[r], "a") = <<Int64(1), Int64(999)>>
                  /\ Quantile(Column(df[r], "a"), 1) = Num(501, 2)
                  /\ Quantile(Column(df[r], "a"), 3) = Num(1499, 2)
            /\ (Done(r) /\ Ok(r)) =>
                  /\ Ops(r)[1].afectados = 1
                  /\ Ops(r)[2].afectados = 2
                  /\ respuesta[r].total_afectados = 3
                  /\ respuesta[r].total_filas = 0
                  /\ respuesta[r].cleaned_preview = <<>>

C7_Witness == \E r \in Requests : IsEndToEnd(r) /\ Done(r) /\ Ok(r) /\ Len(Ops(r)) = 2

\* C8 as stated, one column: a row goes exactly when its value lies outside
\* [Q1 - umbral*IQR, Q3 + umbral*IQR]; a row without a value in the column stays.
C8_Filter(d, col, umbral) ==
    LET s == Column(d, col)
        Q1 == Quantile(s, 1)
        Q3 == Quantile(s, 3)
        lower == FSub(Q1, FMul(umbral, FSub(Q3, Q1)))
        upper == FAdd(Q3, FMul(umbral, FSub(Q3, Q1)))
        Outside(v) == v.k = "num" /\ (~RGe(v, lower) \/ ~RLe(v, upper))
    IN  SelectSeq(d.rows, LAMBDA r : ~Outside(r[col]))

RECURSIVE C8_Rows(_, _, _)
C8_Rows(d, columnas, umbral) ==
    IF columnas = <<>> THEN d.rows
    ELSE IF d.dtypes[Head(columnas)] \in NumericDtypes
         THEN C8_Rows([d EXCEPT !.rows = C8_Filter(d, Head(columnas), umbral)],
                      Tail(columnas), umbral)
    ELSE C8_Rows(d, Tail(columnas), umbral)

\* C8 as stated: an outliers entry filters the listed numeric columns in order,
\* each on the table the previous column left, removing exactly the rows whose
\* value lies outside the bounds, and reports rows before minus rows after; on
\* the single column [1,2,3,4,100] with umbral 1.5 only the row 100 goes.
C8_OutliersAsStated ==
    [][\A r \in Requests :
        ( /\ pc[r] = "loop" /\ idx'[r] = idx[r] + 1
          /\ Entry(r).form # "other" /\ Entry(r).tipo = "outliers" ) =>
            /\ df'[r].rows =
                  C8_Rows(df[r], ColumnasOf(Entry(r).parametros, df[r]),
                          UmbralOf(Entry(r).parametros))
            /\ Ops(r)'[Len(Ops(r)')].afectados = Len(df[r].rows) - Len(df'[r].rows)
            /\ ( /\ Original = ExampleOutlierBounds /\ idx[r] = 1
                 /\ Entry(r).parametros = NoParametros ) =>
                  /\ Quantile(Column(df[r], "a"), 1) = Int64(2)
                  /\ Quantile(Column(df[r], "a"), 3) = Int64(4)
                  /\ Column(df'[r], "a") = <<Int64(1), Int64(2), Int64(3), Int64(4)>>
                  /\ Ops(r)'[1].afectados = 1]_vars

\* position of the last entry of the report that satisfies P (0 if none)
LastPos(ops, P(_)) ==
    LET S == {i \in DOMAIN ops : P(ops[i])}
    IN  IF S = {} THEN 0 ELSE CHOOSE i \in S : \A j \in S : j <= i

IsDuplicados(entrada) == entrada.tipo = "duplicados"

InPipeline(r) == pc[r] \in {"loop", "upload", "insert"} \/ Ok(r)

\* C9 as stated: once a duplicados entry has run the table holds no duplicate row
\* after any later entry, and once a nulos drop has run it holds no missing cell;
\* the final statistics of such runs are 0.
C9_NeverReintroduced ==
    \A r \in Requests :
        InPipeline(r) =>
            /\ LastPos(Ops(r), IsDuplicados) > 0 =>
                  /\ duplicated_sum(df[r]) = 0
                  /\ Ok(r) => respuesta[r].duplicados = 0
            /\ LastPos(Ops(r), IsDrop) > 0 =>
                  /\ isnull_sum(df[r]) = 0
                  /\ Ok(r) => respuesta[r].nulls = 0

\* C9 amended: once a nulos drop has run the table holds no missing cell after
\* any later entry; once a duplicados entry has run it holds no duplicate row
\* after any later entry provided no nulos ffill/bfill/mean entry follows the
\* last duplicados (a fill can make two distinct rows equal).
C9_NotReintroducedUnlessFilled ==
    \A r \in Requests :
        InPipeline(r) =>
            /\ LastPos(Ops(r), IsDuplicados) > LastPos(Ops(r), IsFill) =>
                  /\ duplicated_sum(df[r]) = 0
                  /\ Ok(r) => respuesta[r].duplicados = 0
            /\ LastPos(Ops(r), IsDrop) > 0 =>
                  /\ isnull_sum(df[r]) = 0
                  /\ Ok(r) => respuesta[r].nulls = 0

C9_Witness ==
    \E r \in Requests :
        /\ Done(r) /\ Ok(r) /\ Len(Ops(r)) = 2
        /\ IsDuplicados(Ops(r)[1]) /\ Ops(r)[1].afectados > 0
        /\ Ops(r)[2].tipo = "normalizacion"
        /\ respuesta[r].total_filas >= 2 /\ respuesta[r].duplicados = 0

====
